---- MODULE Spec2Model ----
(***************************************************************************)
(* A model of databricks.labs.lsql.dashboards.Dashboards: building a       *)
(* Lakeview dashboard from a folder of SQL files, deploying it, fetching   *)
(* it back, normalizing its names and saving it to a folder.               *)
(*                                                                         *)
(* Strings are modelled as sequences of tokens: the separators "/" and "_" *)
(* are tokens of their own and every other token is a maximal run of       *)
(* characters holding neither separator.  "counter_count" is               *)
(* <<"counter", "_", "count">>.  String concatenation is \o.               *)
(***************************************************************************)
EXTENDS Integers, Sequences, FiniteSets, TLC

\* ------------------------------------------------------------------ bounds

\* The largest number of *.sql files in the dashboard folder.
MaxTiles == 2
\* The largest number of calls the workspace client receives in one run.
MaxCalls == 1
\* The largest number of datasets of a dashboard exported from the workspace.
MaxDatasets == 2
\* The largest number of widgets on the page of such a dashboard.
MaxWidgets == 2

\* ----------------------------------------------------------------- strings

\* Python's None, kept apart from every string by a reserved token.
None == <<"#None">>

\* An optional dataclass value is a sequence of length 0 (None) or 1.
Opt(S) == {<<>>} \cup {<<x>> : x \in S}

Str(atom) == <<atom>>

RECURSIVE Join(_)
\* "_".join(parts)
Join(parts) ==
    IF Len(parts) = 0 THEN <<>>
    ELSE IF Len(parts) = 1 THEN parts[1]
    ELSE parts[1] \o <<"_">> \o Join(Tail(parts))

\* node.name.startswith("dashboards/")
StartsWithDashboards(name) ==
    /\ Len(name) >= 2
    /\ name[1] = "dashboards"
    /\ name[2] = "/"

\* dict.get(key, key)
Get(better_names, key) ==
    IF key \in DOMAIN better_names THEN better_names[key] ELSE key

\* better_names[key] = value
Put(better_names, key, value) == (key :> value) @@ better_names

\* ------------------------------------------------------------ lakeview model

Field(name, expression) == [name |-> name, expression |-> expression]

Query(dataset_name, fields, disaggregated) ==
    [dataset_name |-> dataset_name, fields |-> fields, disaggregated |-> disaggregated]

NamedQuery(name, query) == [name |-> name, query |-> query]

CounterFieldEncoding(field_name, display_name) ==
    [field_name |-> field_name, display_name |-> display_name]

ControlFieldEncoding(field_name, query_name) ==
    [field_name |-> field_name, query_name |-> query_name]

\* CounterSpec(CounterEncodingMap(value=...)): its as_dict() carries widgetType "counter".
CounterSpec(value) ==
    [widget_type |-> Str("counter"), encodings |-> [value |-> <<value>>, fields |-> <<>>]]

\* A filter spec: ControlEncodingMap(fields=[ControlFieldEncoding, ...]).
ControlSpec(fields) ==
    [widget_type |-> Str("filter-single-select"),
     encodings |-> [value |-> <<>>, fields |-> fields]]

Widget(name, queries, spec) == [name |-> name, queries |-> queries, spec |-> spec]

Position(x, y, width, height) == [x |-> x, y |-> y, width |-> width, height |-> height]

Layout(widget, position) == [widget |-> widget, position |-> position]

Dataset(name, display_name, query) ==
    [name |-> name, display_name |-> display_name, query |-> query]

Page(name, display_name, layout) ==
    [name |-> name, display_name |-> display_name, layout |-> layout]

Dashboard(datasets, pages) == [datasets |-> datasets, pages |-> pages]

\* ------------------------------------------------------------ name normalizer
\* Every replace_names_<Type> is _replace_names on a node of that type: first the
\* node's dataclass and list fields in declaration order (the better_names dict is
\* shared and mutated, so it is threaded through), then the node's own branch.
\* Each returns [node |-> the rewritten node, names |-> the dict afterwards].

Visited(node, better_names) == [node |-> node, names |-> better_names]

\* setattr of a dataclass or list field once _replace_names has walked it.
SetField(node, field, visited) ==
    Visited([node EXCEPT ![field] = visited.node], visited.names)

\* node.name = better_names.get(node.name, node.name)
Rename(node, better_names) ==
    Visited([node EXCEPT !.name = Get(better_names, node.name)], better_names)

\* A walked list: its first item, then the rest with the dict the first left.
Cons(first, rest) == Visited(<<first.node>> \o rest.node, rest.names)

\* Query: its fields are Field dataclasses (no branch applies to them), then
\* dataset_name is looked up.
replace_names_Query(node, better_names) ==
    Visited([node EXCEPT !.dataset_name = Get(better_names, node.dataset_name)], better_names)

\* parts = [dataset_name] + [field.name ...]; "_".join(parts)
NewName(query) ==
    Join(<<query.dataset_name>> \o [i \in 1..Len(query.fields) |-> query.fields[i].name])

\* The dataclass fields of a NamedQuery: its optional Query.
NamedQuery_fields(node, better_names) ==
    [node EXCEPT !.query = IF @ = <<>> THEN <<>>
                           ELSE <<replace_names_Query(@[1], better_names).node>>]

\* The NamedQuery branch, on a node whose fields have been walked.
NamedQuery_branch(node, better_names) ==
    IF node.query = <<>>
    THEN \* "isinstance(node, NamedQuery) and node.query" is false and no later
         \* branch applies: the name is not even looked up
         Visited(node, better_names)
    ELSE Rename(node, IF StartsWithDashboards(node.name)
                      THEN Put(better_names, node.name, NewName(node.query[1]))
                      ELSE better_names)

\* Mutant: the synthesized name is registered only after the lookup.
replace_names_NamedQuery_LateRegister(node, better_names) ==
    IF node.query = <<>>
    THEN Visited(node, better_names)
    ELSE Visited([NamedQuery_fields(node, better_names) EXCEPT !.name = Get(better_names, @)],
                 IF StartsWithDashboards(node.name)
                 THEN Put(better_names, node.name,
                          NewName(NamedQuery_fields(node, better_names).query[1]))
                 ELSE better_names)

replace_names_NamedQuery(node, better_names) ==
    NamedQuery_branch(NamedQuery_fields(node, better_names), better_names)

RECURSIVE replace_names_queries(_, _)
queries_rest(first, items) == Cons(first, replace_names_queries(items, first.names))

replace_names_queries(items, better_names) ==
    IF items = <<>> THEN Visited(<<>>, better_names)
    ELSE queries_rest(replace_names_NamedQuery(Head(items), better_names), Tail(items))

replace_names_ControlFieldEncoding(node, better_names) ==
    Visited([node EXCEPT !.query_name = Get(better_names, node.query_name)], better_names)

\* A widget spec: its encoding map, and in it the list of control field encodings
\* (a CounterFieldEncoding has no branch and stays as it is).
replace_names_Spec(node, better_names) ==
    Visited([node EXCEPT !.encodings.fields =
                [i \in 1..Len(@) |->
                    replace_names_ControlFieldEncoding(@[i], better_names).node]],
            better_names)

\* spec.as_dict().get("widgetType", node.name)
WidgetType(spec, name) == IF spec.widget_type = None THEN name ELSE spec.widget_type

\* Widget.spec is walked after Widget.queries, with the dict the queries left.
Widget_spec(visited) ==
    Visited([visited.node EXCEPT !.spec =
                IF @ = <<>> THEN <<>>
                ELSE <<replace_names_Spec(@[1], visited.names).node>>],
            visited.names)

\* The Widget branch, on a node whose fields have been walked.
Widget_branch(visited) ==
    Visited([visited.node EXCEPT !.name =
                IF visited.node.spec = <<>> THEN @
                ELSE WidgetType(visited.node.spec[1], @)],
            visited.names)

\* Widget(name, queries, spec): queries are walked before spec.
replace_names_Widget(node, better_names) ==
    Widget_branch(Widget_spec(
        SetField(node, "queries", replace_names_queries(node.queries, better_names))))

\* Layout(widget, position): the Position has no name.
replace_names_Layout(node, better_names) ==
    SetField(node, "widget", replace_names_Widget(node.widget, better_names))

RECURSIVE replace_names_layout(_, _)
layout_rest(first, items) == Cons(first, replace_names_layout(items, first.names))

replace_names_layout(items, better_names) ==
    IF items = <<>> THEN Visited(<<>>, better_names)
    ELSE layout_rest(replace_names_Layout(Head(items), better_names), Tail(items))

\* The Page branch, on a node whose fields have been walked.
Page_branch(visited) == Rename(visited.node, visited.names)

replace_names_Page(node, better_names) ==
    Page_branch(SetField(node, "layout", replace_names_layout(node.layout, better_names)))

RECURSIVE replace_names_pages(_, _)
pages_rest(first, items) == Cons(first, replace_names_pages(items, first.names))

replace_names_pages(items, better_names) ==
    IF items = <<>> THEN Visited(<<>>, better_names)
    ELSE pages_rest(replace_names_Page(Head(items), better_names), Tail(items))

replace_names_Dataset(node, better_names) == Rename(node, better_names)

\* Dashboard(datasets, pages): the datasets are walked before the pages.
replace_names(node, better_names) ==
    SetField([node EXCEPT !.datasets =
                 [i \in 1..Len(@) |-> replace_names_Dataset(@[i], better_names).node]],
             "pages", replace_names_pages(node.pages, better_names))

RECURSIVE DisplayNames(_, _)
\* for item in items: if item.display_name is not None:
\*     better_names[item.name] = item.display_name
DisplayNames(items, better_names) ==
    IF items = <<>> THEN better_names
    ELSE DisplayNames(Tail(items),
                      IF Head(items).display_name # None
                      THEN Put(better_names, Head(items).name, Head(items).display_name)
                      ELSE better_names)

\* The dict _with_better_names hands to _replace_names.
better_names_of(dashboard) ==
    DisplayNames(dashboard.pages, DisplayNames(dashboard.datasets, <<>>))

with_better_names(dashboard) ==
    replace_names(dashboard, better_names_of(dashboard)).node

\* ------------------------------------------------------------------ wire form
\* Dashboard.as_dict() / Dashboard.from_dict(): the JSON document exchanged with
\* the workspace.  Keys are camelCase and a field that is None is left out.

OptKey(key, value) == IF value = None THEN <<>> ELSE (key :> value)

OptNode(key, value) == IF value = <<>> THEN <<>> ELSE (key :> value[1])

as_dict_Query(node) ==
    [datasetName |-> node.dataset_name,
     fields |-> [i \in 1..Len(node.fields) |->
                    [name |-> node.fields[i].name, expression |-> node.fields[i].expression]],
     disaggregated |-> node.disaggregated]

as_dict_NamedQuery(node) ==
    ("name" :> node.name)
    @@ OptNode("query", IF node.query = <<>> THEN <<>> ELSE <<as_dict_Query(node.query[1])>>)

as_dict_Spec(node) ==
    OptKey("widgetType", node.widget_type)
    @@ ("encodings" :>
          (OptNode("value", IF node.encodings.value = <<>> THEN <<>>
                            ELSE <<[fieldName |-> node.encodings.value[1].field_name,
                                    displayName |-> node.encodings.value[1].display_name]>>)
           @@ ("fields" :> [i \in 1..Len(node.encodings.fields) |->
                               [fieldName |-> node.encodings.fields[i].field_name,
                                queryName |-> node.encodings.fields[i].query_name]])))

as_dict_Widget(node) ==
    [name |-> node.name,
     queries |-> [i \in 1..Len(node.queries) |-> as_dict_NamedQuery(node.queries[i])]]
    @@ OptNode("spec", IF node.spec = <<>> THEN <<>> ELSE <<as_dict_Spec(node.spec[1])>>)

as_dict_Page(node) ==
    [name |-> node.name,
     layout |-> [i \in 1..Len(node.layout) |->
                    [widget |-> as_dict_Widget(node.layout[i].widget),
                     position |-> node.layout[i].position]]]
    @@ OptKey("displayName", node.display_name)

as_dict_Dataset(node) ==
    [name |-> node.name, query |-> node.query] @@ OptKey("displayName", node.display_name)

as_dict(dashboard) ==
    [datasets |-> [i \in 1..Len(dashboard.datasets) |-> as_dict_Dataset(dashboard.datasets[i])],
     pages |-> [i \in 1..Len(dashboard.pages) |-> as_dict_Page(dashboard.pages[i])]]

KeyOr(d, key, default) == IF key \in DOMAIN d THEN d[key] ELSE default

from_dict_Query(d) ==
    Query(d.datasetName,
          [i \in 1..Len(d.fields) |-> Field(d.fields[i].name, d.fields[i].expression)],
          d.disaggregated)

from_dict_NamedQuery(d) ==
    NamedQuery(d.name, IF "query" \in DOMAIN d THEN <<from_dict_Query(d.query)>> ELSE <<>>)

from_dict_Spec(d) ==
    [widget_type |-> KeyOr(d, "widgetType", None),
     encodings |->
        [value |-> IF "value" \in DOMAIN d.encodings
                   THEN <<CounterFieldEncoding(d.encodings.value.fieldName,
                                               d.encodings.value.displayName)>>
                   ELSE <<>>,
         fields |-> [i \in 1..Len(d.encodings.fields) |->
                        ControlFieldEncoding(d.encodings.fields[i].fieldName,
                                             d.encodings.fields[i].queryName)]]]

from_dict_Widget(d) ==
    Widget(d.name,
           [i \in 1..Len(d.queries) |-> from_dict_NamedQuery(d.queries[i])],
           IF "spec" \in DOMAIN d THEN <<from_dict_Spec(d.spec)>> ELSE <<>>)

from_dict_Page(d) ==
    Page(d.name, KeyOr(d, "displayName", None),
         [i \in 1..Len(d.layout) |->
             Layout(from_dict_Widget(d.layout[i].widget), d.layout[i].position)])

from_dict_Dataset(d) == Dataset(d.name, KeyOr(d, "displayName", None), d.query)

from_dict(d) ==
    Dashboard([i \in 1..Len(d.datasets) |-> from_dict_Dataset(d.datasets[i])],
              [i \in 1..Len(d.pages) |-> from_dict_Page(d.pages[i])])

\* ------------------------------------------------------------ create_dashboard

\* Mutant: the query refers to the file name, not to the stem the dataset is named by.
create_layout_FileName(dataset) ==
    LET fields == <<Field(Str("count"), Str("'count'"))>>
        query == Query(dataset.name \o <<".sql">>, fields, TRUE)
        named_query == NamedQuery(<<"main", "_", "query">>, <<query>>)
        counter_spec == CounterSpec(CounterFieldEncoding(Str("count"), Str("count")))
    IN  Layout(Widget(dataset.name, <<named_query>>, <<counter_spec>>), Position(0, 0, 1, 3))

\* The Layout create_dashboard appends for one *.sql file.
create_layout(dataset) ==
    LET \* the expression is count in backquotes, written here with apostrophes
        fields == <<Field(Str("count"), Str("'count'"))>>
        query == Query(dataset.name, fields, TRUE)
        named_query == NamedQuery(<<"main", "_", "query">>, <<query>>)
        counter_field_encoding == CounterFieldEncoding(Str("count"), Str("count"))
        counter_spec == CounterSpec(counter_field_encoding)
        widget == Widget(dataset.name, <<named_query>>, <<counter_spec>>)
        position == Position(0, 0, 1, 3)
    IN  Layout(widget, position)

\* folder_name: dashboard_folder.name; glob: the *.sql stems in the order
\* dashboard_folder.glob("*.sql") yields them; raw_query: stem -> file content.
create_dashboard(folder_name, glob, raw_query) ==
    LET datasets == [i \in 1..Len(glob) |-> Dataset(glob[i], glob[i], raw_query[glob[i]])]
        layouts == [i \in 1..Len(glob) |-> create_layout(datasets[i])]
        page == Page(folder_name, folder_name, layouts)
    IN  Dashboard(datasets, <<page>>)

\* ---------------------------------------------------------------- format_query

\* sqlglot.parse(query), on the query texts of the model: what it raises ("" when
\* it returns) and the statements it returns, each given as the text its
\* .sql(dialect="databricks", normalize=True, pretty=True, ...) produces ("#None"
\* for an empty statement, which parse returns as None).  The tokenizer's
\* sqlglot.TokenError is not a sqlglot.ParseError.
Parse(query) ==
    CASE query = "SELECT COUNT(* AS invalid_column"
           -> [raises |-> "ParseError", statements |-> <<>>]
      [] query = "SELECT 'unterminated AS count"
           -> [raises |-> "TokenError", statements |-> <<>>]
      [] query = "SELECT 10 AS count"
           -> [raises |-> "", statements |-> <<"SELECT\n  10 AS count">>]
      [] query = "select Count(*) as COUNT from T;;"
           -> [raises |-> "", statements |-> <<"SELECT\n  COUNT(*) AS count\nFROM t", "#None">>]
      [] OTHER
           -> [raises |-> "", statements |-> <<query>>]

RECURSIVE JoinStatements(_)
\* ";\n".join(statements)
JoinStatements(statements) ==
    IF Len(statements) = 0 THEN ""
    ELSE IF Len(statements) = 1 THEN statements[1]
    ELSE statements[1] \o ";\n" \o JoinStatements(Tail(statements))

IsStatement(statement) == statement # "#None"

\* [raises |-> the exception that leaves _format_query ("" for none),
\*  text |-> the text it returns]
format_query(query) ==
    LET parsed_query == Parse(query)
    IN  IF parsed_query.raises = "ParseError"
        THEN [raises |-> "", text |-> query]
        ELSE IF parsed_query.raises # ""
        THEN [raises |-> parsed_query.raises, text |-> ""]
        ELSE [raises |-> "",
              text |-> JoinStatements(SelectSeq(parsed_query.statements, IsStatement))]

\* ------------------------------------------------------------------- the state

VARIABLES
    folder,             \* the dashboard folder: [name, glob: the stems of its *.sql files in
                        \* the order glob("*.sql") yields them, raw_query: stem -> content]
    lakeview_dashboard, \* Opt: the Dashboard create_dashboard returned (normalized in place)
    new_dashboard,      \* Opt: the Dashboard get_dashboard returned (normalized in place)
    normalized,         \* whether each of the two objects has been normalized
    workspace,          \* dashboard id -> Opt: the document the remote workspace holds
    calls,              \* the ws.lakeview.create / update calls issued, in order
    sql_files,          \* local_path: <name>.sql -> content
    yml_files,          \* local_path: <name>.yml -> content
    outcome,            \* how the last operation ended: "ok" or the exception raised
    built,              \* history: Opt, lakeview_dashboard as create_dashboard returned it
    deployed,           \* history: dashboard id -> Opt, the object last deployed there
    fetched             \* history: Opt, the object whose deployment new_dashboard was read from

vars == <<folder, lakeview_dashboard, new_dashboard, normalized, workspace, calls,
          sql_files, yml_files, outcome, built, deployed, fetched>>

\* --------------------------------------------------------------- input domains

Stems == {Str("a"), Str("b"), Str("c")}

FolderNames == {Str("dash")}

\* The content of <stem>.sql.
RawQuery(stem) ==
    CASE stem = Str("a") -> "SELECT 10 AS count"
      [] stem = Str("b") -> "SELECT COUNT(* AS invalid_column"
      [] OTHER -> "select Count(*) as COUNT from T;;"

\* The orders in which glob("*.sql") may yield the stems of a folder.
Globs(stems) ==
    {g \in [1..Cardinality(stems) -> stems] : \A i, j \in DOMAIN g : i # j => g[i] # g[j]}

Folders ==
    {[name |-> n, glob |-> g, raw_query |-> [stem \in S |-> RawQuery(stem)]] :
        n \in FolderNames,
        S \in {T \in SUBSET Stems : Cardinality(T) <= MaxTiles},
        g \in UNION {Globs(T) : T \in SUBSET Stems}}

\* The dashboard the test fixture made before the run, and the ids create hands out.
ExistingId == Str("01ef")

CreatedId(n) ==
    Str(CASE n = 1 -> "c1" [] n = 2 -> "c2" [] n = 3 -> "c3" [] n = 4 -> "c4" [] OTHER -> "c")

DashboardIds == {ExistingId} \cup {CreatedId(n) : n \in 1..MaxCalls}

DisplayNameArgs == {None, Str("Counter")}

DashboardIdArgs == {None, ExistingId, CreatedId(1)}

Objects == {"lakeview_dashboard", "new_dashboard"}

\* ------------------------------------------------------------ remote workspace

\* json.dumps / json.loads
json_dumps(d) == [json |-> d]

json_loads(raw) == raw.json

\* A name of the form the remote service generates for the queries of the i-th
\* widget of a page: dashboards/<id>/datasets/<id>_...
RemoteName(i) ==
    <<"dashboards", "/", "01eeb077", "/", "datasets", "/",
      CASE i = 1 -> "01eeb081" [] i = 2 -> "01eeb082" [] i = 3 -> "01eeb083" [] OTHER -> "01eeb08f",
      "_", "count">>

\* The document the service keeps for a deployed one: renames says whether it
\* gives the queries of the widgets names of its own.
RemoteStore(doc, renames) ==
    [doc EXCEPT !.pages =
        [p \in 1..Len(doc.pages) |->
            [doc.pages[p] EXCEPT !.layout =
                [i \in 1..Len(doc.pages[p].layout) |->
                    [doc.pages[p].layout[i] EXCEPT !.widget.queries =
                        [k \in 1..Len(doc.pages[p].layout[i].widget.queries) |->
                            [doc.pages[p].layout[i].widget.queries[k] EXCEPT !.name =
                                IF renames THEN RemoteName(i) ELSE @]]]]]]]

\* The service's answer to a call that stored doc under id.
RemotePut(ws, id, doc) ==
    [workspace |-> [ws EXCEPT ![id] = <<doc>>], dashboard_id |-> id, raises |-> ""]

\* What the service does with a create or update call, the n-th call it receives:
\* [workspace, id of the dashboard touched (None: none), raises].
RemoteApply(ws, call, renames, n) ==
    IF call.method = "update" /\ (call.target \notin DOMAIN ws \/ ws[call.target] = <<>>)
    THEN [workspace |-> ws, dashboard_id |-> None, raises |-> "NotFound"]
    ELSE RemotePut(ws, IF call.method = "create" THEN CreatedId(n) ELSE call.target,
                   RemoteStore(json_loads(call.serialized_dashboard), renames))

\* ------------------------------------------------------------ deploy_dashboard

\* Mutant: only the call with neither argument is refused.
InvalidArguments_OnlyNeither(display_name, dashboard_id) ==
    display_name = None /\ dashboard_id = None

\* The condition under which deploy_dashboard raises ValueError.
InvalidArguments(display_name, dashboard_id) ==
    \/ (display_name = None /\ dashboard_id = None)
    \/ (display_name # None /\ dashboard_id # None)

\* Mutant: the two branches issue each other's call.
deploy_call_Swapped(dashboard, display_name, dashboard_id) ==
    IF display_name # None
    THEN [method |-> "update", target |-> display_name,
          serialized_dashboard |-> json_dumps(as_dict(dashboard))]
    ELSE [method |-> "create", target |-> dashboard_id,
          serialized_dashboard |-> json_dumps(as_dict(dashboard))]

\* The call deploy_dashboard issues once its arguments are accepted.
deploy_call(dashboard, display_name, dashboard_id) ==
    IF display_name # None
    THEN [method |-> "create", target |-> display_name,
          serialized_dashboard |-> json_dumps(as_dict(dashboard))]
    ELSE [method |-> "update", target |-> dashboard_id,
          serialized_dashboard |-> json_dumps(as_dict(dashboard))]

\* --------------------------------------------------------------- save_to_folder

SqlFile(name) == name \o <<".sql">>

YmlFile(name) == name \o <<".yml">>

\* with path.open("w") as f: f.write(content)
WriteFile(files, path, content) == (path :> content) @@ files

RECURSIVE write_datasets(_, _)
\* The loop over dashboard.datasets: [files |-> the *.sql files afterwards,
\* raises |-> the exception that ended it ("" for none)].
write_datasets(datasets, files) ==
    IF datasets = <<>> THEN [files |-> files, raises |-> ""]
    ELSE LET query == format_query(Head(datasets).query)
         IN  IF query.raises # ""
             THEN [files |-> files, raises |-> query.raises]
             ELSE write_datasets(Tail(datasets),
                                 WriteFile(files, SqlFile(Head(datasets).name), query.text))

\* yaml.safe_dump(page.as_dict(), f)
yaml_safe_dump(d) == [yaml |-> d]

RECURSIVE write_pages(_, _)
write_pages(pages, files) ==
    IF pages = <<>> THEN files
    ELSE write_pages(Tail(pages),
                     WriteFile(files, YmlFile(Head(pages).name),
                               yaml_safe_dump(as_dict_Page(Head(pages)))))

\* ------------------------------------------------------------------- actions

Object(object) == IF object = "lakeview_dashboard" THEN lakeview_dashboard ELSE new_dashboard

SetObject(object, value) ==
    /\ lakeview_dashboard' = IF object = "lakeview_dashboard" THEN value ELSE lakeview_dashboard
    /\ new_dashboard' = IF object = "new_dashboard" THEN value ELSE new_dashboard

EmptyDocument == as_dict(Dashboard(<<>>, <<>>))

InitRest ==
    /\ lakeview_dashboard = <<>>
    /\ new_dashboard = <<>>
    /\ normalized = [lakeview_dashboard |-> FALSE, new_dashboard |-> FALSE]
    /\ calls = <<>>
    /\ sql_files = <<>>
    /\ yml_files = <<>>
    /\ outcome = "ok"
    /\ built = <<>>
    /\ deployed = [id \in DashboardIds |-> <<>>]
    /\ fetched = <<>>

\* A folder of *.sql files, and a workspace holding one empty dashboard.
Init ==
    /\ folder \in {f \in Folders : f.glob \in Globs(DOMAIN f.raw_query)}
    /\ workspace = [id \in DashboardIds |-> IF id = ExistingId THEN <<EmptyDocument>> ELSE <<>>]
    /\ InitRest

CreateDashboard ==
    /\ lakeview_dashboard' = <<create_dashboard(folder.name, folder.glob, folder.raw_query)>>
    /\ built' = lakeview_dashboard'
    /\ normalized' = [normalized EXCEPT !.lakeview_dashboard = FALSE]
    /\ outcome' = "ok"
    /\ UNCHANGED <<folder, new_dashboard, workspace, calls, sql_files, yml_files,
                   deployed, fetched>>

\* return dashboard: what the service answered to the call.
Returned(remote) ==
    /\ workspace' = remote.workspace
    /\ deployed' = IF remote.raises = ""
                   THEN [deployed EXCEPT ![remote.dashboard_id] =
                            IF normalized.lakeview_dashboard THEN <<>> ELSE built]
                   ELSE deployed
    /\ outcome' = IF remote.raises = "" THEN "ok" ELSE remote.raises

\* self._ws.lakeview.create(...) / update(...)
Issue(call, renames) ==
    /\ calls' = Append(calls, call)
    /\ Returned(RemoteApply(workspace, call, renames, Len(calls) + 1))

DeployDashboard(display_name, dashboard_id, renames) ==
    /\ lakeview_dashboard # <<>>
    /\ Len(calls) < MaxCalls
    /\ IF InvalidArguments(display_name, dashboard_id)
       THEN /\ outcome' = "ValueError"
            /\ UNCHANGED <<workspace, calls, deployed>>
       ELSE Issue(deploy_call(lakeview_dashboard[1], display_name, dashboard_id), renames)
    /\ UNCHANGED <<folder, lakeview_dashboard, new_dashboard, normalized, sql_files,
                   yml_files, built, fetched>>

GetDashboard(dashboard_path) ==
    /\ IF workspace[dashboard_path] = <<>>
       THEN /\ outcome' = "NotFound"
            /\ UNCHANGED <<new_dashboard, normalized, fetched>>
       ELSE LET raw == json_dumps(workspace[dashboard_path][1])
                as_dict_ == json_loads(raw)
            IN  /\ new_dashboard' = <<from_dict(as_dict_)>>
                /\ normalized' = [normalized EXCEPT !.new_dashboard = FALSE]
                /\ fetched' = deployed[dashboard_path]
                /\ outcome' = "ok"
    /\ UNCHANGED <<folder, lakeview_dashboard, workspace, calls, sql_files, yml_files,
                   built, deployed>>

WithBetterNames(object) ==
    /\ Object(object) # <<>>
    /\ SetObject(object, <<with_better_names(Object(object)[1])>>)
    /\ normalized' = [normalized EXCEPT ![object] = TRUE]
    /\ outcome' = "ok"
    /\ UNCHANGED <<folder, workspace, calls, sql_files, yml_files, built, deployed, fetched>>

\* The pages loop runs when the datasets loop has ended without an exception.
WriteAll(written, pages) ==
    /\ sql_files' = written.files
    /\ yml_files' = IF written.raises = "" THEN write_pages(pages, yml_files) ELSE yml_files
    /\ outcome' = IF written.raises = "" THEN "ok" ELSE written.raises

\* save_to_folder from the return of _with_better_names on.
Save(object, dashboard) ==
    /\ SetObject(object, <<dashboard>>)
    /\ WriteAll(write_datasets(dashboard.datasets, sql_files), dashboard.pages)

SaveToFolder(object) ==
    /\ Object(object) # <<>>
    /\ Save(object, with_better_names(Object(object)[1]))
    /\ normalized' = [normalized EXCEPT ![object] = TRUE]
    /\ UNCHANGED <<folder, workspace, calls, built, deployed, fetched>>

Next ==
    \/ CreateDashboard
    \/ \E display_name \in DisplayNameArgs, dashboard_id \in DashboardIdArgs, renames \in BOOLEAN :
          DeployDashboard(display_name, dashboard_id, renames)
    \/ \E dashboard_path \in DashboardIds : GetDashboard(dashboard_path)
    \/ \E object \in Objects : WithBetterNames(object)
    \/ \E object \in Objects : SaveToFolder(object)

Spec == Init /\ [][Next]_vars

\* ------------------------------------------------- dashboards made in the workspace
\* A second specification: the workspace holds a dashboard that was made there,
\* with names and display names of its own, and the program fetches, normalizes
\* and saves it.

DatasetNames == {Str("a"), Str("b"), Str("c")}

ExportedQueries ==
    {"select Count(*) as COUNT from T;;", "SELECT COUNT(* AS invalid_column",
     "SELECT 'unterminated AS count"}

DatasetChoices ==
    {Dataset(name, display_name, query) :
        name \in DatasetNames, display_name \in {None, Str("x")}, query \in ExportedQueries}

\* Dataset lists; the names of the datasets of a dashboard are unique.
DatasetLists ==
    UNION {{d \in [1..n -> DatasetChoices] : \A i, j \in 1..n : i # j => d[i].name # d[j].name} :
              n \in 1..MaxDatasets}

\* One or two pages without widgets; the second page is named q.
PageLists ==
    {<<Page(name, display_name, <<>>)>> :
        name \in {Str("p"), Str("a")}, display_name \in {None, Str("y")}}
    \cup
    {<<Page(name, display_name, <<>>), Page(Str("q"), other, <<>>)>> :
        name \in {Str("p"), Str("a")}, display_name \in {None, Str("y")}, other \in {None, Str("y")}}

\* The names a NamedQuery or a ControlFieldEncoding.query_name may hold: a name
\* the service generated, a name that only starts like one, the name of the
\* dataset, and a name of the user's.
QueryNames == {RemoteName(1), <<"dashboards", "/", "other">>, Str("a"), Str("q")}

CountQuery(dataset_name) ==
    Query(dataset_name, <<Field(Str("count"), Str("'count'"))>>, TRUE)

CounterWidgets ==
    {Widget(Str("w"), <<NamedQuery(name, query)>>,
            <<CounterSpec(CounterFieldEncoding(Str("count"), Str("count")))>>) :
        name \in QueryNames, query \in Opt({CountQuery(Str("a"))})}

FilterWidgets ==
    {Widget(Str("f"), <<>>, <<ControlSpec(<<ControlFieldEncoding(Str("count"), query_name)>>)>>) :
        query_name \in QueryNames}
    \cup
    {Widget(Str("f"), <<NamedQuery(RemoteName(1), <<CountQuery(Str("a"))>>)>>,
            <<ControlSpec(<<ControlFieldEncoding(Str("count"), RemoteName(1))>>)>>)}

TextWidgets == {Widget(Str("t"), <<>>, <<>>)}

WidgetChoices == CounterWidgets \cup FilterWidgets \cup TextWidgets

LayoutLists ==
    UNION {[1..n -> {Layout(widget, Position(0, 0, 1, 3)) : widget \in WidgetChoices}] :
              n \in 1..MaxWidgets}

\* The dataset display name, page name and page display name of a dashboard whose
\* page holds widgets: a page without a display name, and a page that has one and
\* is named as the service names queries.
WidgetPages ==
    {<<None, Str("p"), None>>, <<Str("x"), Str("p"), None>>,
     <<Str("x"), RemoteName(1), Str("y")>>}

ExportedDashboards ==
    {Dashboard(datasets, pages) : datasets \in DatasetLists, pages \in PageLists}
    \cup
    {Dashboard(<<Dataset(Str("a"), names[1], "SELECT 10 AS count")>>,
               <<Page(names[2], names[3], layout)>>) :
        names \in WidgetPages, layout \in LayoutLists}

InitExported ==
    /\ folder = [name |-> Str("dash"), glob |-> <<>>, raw_query |-> <<>>]
    /\ \E dashboard \in ExportedDashboards :
          workspace = [id \in DashboardIds |->
                          IF id = ExistingId THEN <<as_dict(dashboard)>> ELSE <<>>]
    /\ InitRest

NextExported ==
    \/ \E dashboard_path \in DashboardIds : GetDashboard(dashboard_path)
    \/ WithBetterNames("new_dashboard")
    \/ SaveToFolder("new_dashboard")

SpecExported == InitExported /\ [][NextExported]_vars

\* ===================================================================== claims

\* The grid width of the layout.
G == 6

\* The lexical rank of the characters file stems are made of.
AtomRank(atom) ==
    CASE atom = "a" -> 1
      [] atom = "b" -> 2
      [] atom = "c" -> 3
      [] OTHER -> 0

\* Lexical order on the one-token stems of the model.
StemLess(s, t) == AtomRank(s[1]) < AtomRank(t[1])

Overlap(p, q) ==
    /\ p.x < q.x + q.width
    /\ q.x < p.x + p.width
    /\ p.y < q.y + q.height
    /\ q.y < p.y + p.height

\* The positions (page, layout index, query index) of the named queries of a dashboard.
QueryPlaces(dashboard) ==
    UNION {UNION {{<<p, i, k>> : k \in 1..Len(dashboard.pages[p].layout[i].widget.queries)} :
                     i \in 1..Len(dashboard.pages[p].layout)} :
              p \in 1..Len(dashboard.pages)}

QueryAt(dashboard, place) ==
    dashboard.pages[place[1]].layout[place[2]].widget.queries[place[3]]

\* The positions (page, layout index, encoding index) of the control field encodings.
EncodingPlaces(dashboard) ==
    UNION {UNION {IF dashboard.pages[p].layout[i].widget.spec = <<>> THEN {}
                  ELSE {<<p, i, e>> :
                           e \in 1..Len(dashboard.pages[p].layout[i].widget.spec[1].encodings.fields)} :
                     i \in 1..Len(dashboard.pages[p].layout)} :
              p \in 1..Len(dashboard.pages)}

EncodingAt(dashboard, place) ==
    dashboard.pages[place[1]].layout[place[2]].widget.spec[1].encodings.fields[place[3]]

DatasetNamesOf(dashboard) == {dashboard.datasets[i].name : i \in 1..Len(dashboard.datasets)}

\* ------------------------------------------------------------------------ C1
\* C1 (as claimed): once a locally built dashboard D has been deployed and fetched
\* back, whatever names the service gave its named queries, normalizing the
\* fetched dashboard and normalizing D give equal dashboards.
C1_RoundTrip ==
    (/\ lakeview_dashboard # <<>>
     /\ new_dashboard # <<>>
     /\ built # <<>>
     /\ fetched = built
     /\ normalized.lakeview_dashboard
     /\ normalized.new_dashboard)
    => as_dict(new_dashboard[1]) = as_dict(lakeview_dashboard[1])

\* ------------------------------------------------------------------------ C2
DeployStep(display_name, dashboard_id) ==
    \E renames \in BOOLEAN : DeployDashboard(display_name, dashboard_id, renames)

\* C2: a deploy_dashboard call with both display_name and dashboard_id, or with
\* neither, ends in ValueError and issues no create or update call: the call log
\* and the workspace are what they were.
C2_InvalidArgumentsFailBeforeAnyCall ==
    [][\A display_name \in DisplayNameArgs, dashboard_id \in DashboardIdArgs :
          (/\ (display_name = None) <=> (dashboard_id = None)
           /\ DeployStep(display_name, dashboard_id))
          => (outcome' = "ValueError" /\ calls' = calls /\ workspace' = workspace)]_vars

\* A refused deploy_dashboard call, with a dashboard at hand and nothing sent.
C2_Witness ==
    /\ outcome = "ValueError"
    /\ lakeview_dashboard # <<>>
    /\ calls = <<>>

\* ------------------------------------------------------------------------ C3
\* C3 (as claimed): in a dashboard create_dashboard built, no two positions of a
\* page overlap and every position has x + width <= G.
C3_Packing ==
    lakeview_dashboard # <<>> =>
        \A p \in 1..Len(lakeview_dashboard[1].pages) :
            LET layout == lakeview_dashboard[1].pages[p].layout
            IN  /\ \A i \in 1..Len(layout) : layout[i].position.x + layout[i].position.width <= G
                /\ \A i, j \in 1..Len(layout) :
                      i # j => ~Overlap(layout[i].position, layout[j].position)

\* ------------------------------------------------------------------------ C4
\* C4 (as claimed): the tiles of a built dashboard are in ascending (order, identity)
\* sequence whatever order the files were discovered in; create_dashboard reads no
\* order, so all tiles tie on it and the file stems decide.
C4_LayoutSorted ==
    lakeview_dashboard # <<>> =>
        LET datasets == lakeview_dashboard[1].datasets
            layout == lakeview_dashboard[1].pages[1].layout
        IN  /\ Len(layout) = Len(datasets)
            /\ \A i \in 1..Len(layout) :
                  layout[i].widget.queries[1].query[1].dataset_name = datasets[i].name
            /\ \A i, j \in 1..Len(datasets) :
                  i < j => StemLess(datasets[i].name, datasets[j].name)

\* ------------------------------------------------------------------------ C5
\* C5: in the dashboard create_dashboard built, however often it has been
\* normalized since, the dataset_name of every query of every widget is the name
\* of a dataset of the dashboard.
C5_QueriesReferToDatasets ==
    lakeview_dashboard # <<>> =>
        \A place \in QueryPlaces(lakeview_dashboard[1]) :
            LET named_query == QueryAt(lakeview_dashboard[1], place)
            IN  named_query.query # <<>> =>
                    named_query.query[1].dataset_name \in DatasetNamesOf(lakeview_dashboard[1])

\* A normalized built dashboard with two datasets and a query on each.
C5_Witness ==
    /\ lakeview_dashboard # <<>>
    /\ normalized.lakeview_dashboard
    /\ Len(lakeview_dashboard[1].datasets) = 2
    /\ Cardinality(QueryPlaces(lakeview_dashboard[1])) = 2

\* ------------------------------------------------------------------------ C9
\* C9: a deploy_dashboard call with exactly one of display_name and dashboard_id
\* adds exactly one call to the call log, carrying the serialized dashboard:
\* create with the display name when that is given, update on the id otherwise.
C9_ExactlyOneCall ==
    [][\A display_name \in DisplayNameArgs, dashboard_id \in DashboardIdArgs :
          (/\ (display_name = None) # (dashboard_id = None)
           /\ DeployStep(display_name, dashboard_id))
          => /\ Len(calls') = Len(calls) + 1
             /\ SubSeq(calls', 1, Len(calls)) = calls
             /\ calls'[Len(calls')] =
                   [method |-> IF display_name # None THEN "create" ELSE "update",
                    target |-> IF display_name # None THEN display_name ELSE dashboard_id,
                    serialized_dashboard |-> json_dumps(as_dict(lakeview_dashboard[1]))]]_vars

\* A create call went out and the service made the dashboard.
C9_Witness ==
    /\ Len(calls) = 1
    /\ calls[1].method = "create"
    /\ calls[1].target = Str("Counter")
    /\ outcome = "ok"
    /\ workspace[CreatedId(1)] # <<>>

\* ---------------------------------------------- claims on workspace dashboards

\* A step that normalizes new_dashboard: _with_better_names itself, or the
\* save_to_folder that starts with it.
NormalizeStep ==
    /\ new_dashboard # <<>>
    /\ (WithBetterNames("new_dashboard") \/ SaveToFolder("new_dashboard"))

SaveStep ==
    /\ new_dashboard # <<>>
    /\ SaveToFolder("new_dashboard")

\* dashboards/<id>/datasets/<id>_...
MatchesRemotePattern(name) ==
    /\ Len(name) >= 8
    /\ name[1] = "dashboards" /\ name[2] = "/" /\ name[3] \notin {"/", "_"}
    /\ name[4] = "/" /\ name[5] = "datasets" /\ name[6] = "/" /\ name[7] \notin {"/", "_"}
    /\ name[8] = "_"

\* The dataset name of a query joined by underscores with the names of its fields.
Synthesized(query) ==
    Join(<<query.dataset_name>> \o [i \in 1..Len(query.fields) |-> query.fields[i].name])

\* The dashboard the workspace holds, as get_dashboard reads it.
Exported == from_dict(workspace[ExistingId][1])

\* ------------------------------------------------------------------------ C6
\* C6 (as claimed): normalizing a NamedQuery whose name matches the pattern
\* dashboards/<id>/datasets/<id>_... gives it the name <dataset name>_<field
\* names>; a NamedQuery whose name does not match the pattern gets the plain
\* lookup in the display-name map and nothing else.
C6_PatternDecides ==
    [][NormalizeStep =>
          \A place \in QueryPlaces(new_dashboard[1]) :
              LET before == QueryAt(new_dashboard[1], place)
                  after == QueryAt(new_dashboard'[1], place)
              IN  IF MatchesRemotePattern(before.name) /\ before.query # <<>>
                  THEN after.name = Synthesized(after.query[1])
                  ELSE after.name = Get(better_names_of(new_dashboard[1]), before.name)]_vars

\* C6 (amended): normalizing a NamedQuery that has a query and whose name starts
\* with "dashboards/" gives it the name <normalized dataset name>_<field names>
\* and registers old name -> new name in the name map; one that has a query and
\* whose name does not start with "dashboards/" gets the plain lookup in the
\* display-name map; one without a query keeps its name.
C6_PrefixDecides ==
    [][NormalizeStep =>
          LET names == replace_names(new_dashboard[1], better_names_of(new_dashboard[1])).names
          IN  \A place \in QueryPlaces(new_dashboard[1]) :
                  LET before == QueryAt(new_dashboard[1], place)
                      after == QueryAt(new_dashboard'[1], place)
                  IN  IF before.query = <<>>
                      THEN after.name = before.name
                      ELSE IF StartsWithDashboards(before.name)
                      THEN /\ after.name = Synthesized(after.query[1])
                           /\ before.name \in DOMAIN names
                           /\ \E other \in QueryPlaces(new_dashboard[1]) :
                                 /\ QueryAt(new_dashboard[1], other).name = before.name
                                 /\ QueryAt(new_dashboard'[1], other).name = names[before.name]
                      ELSE after.name = Get(better_names_of(new_dashboard[1]), before.name)]_vars

\* A NamedQuery the service had named dashboards/<id>/datasets/<id>_count, on the
\* dataset displayed as x, has been normalized to x_count.
C6_Witness ==
    /\ new_dashboard # <<>>
    /\ normalized.new_dashboard
    /\ \E place \in QueryPlaces(Exported) :
          /\ QueryAt(Exported, place).name = RemoteName(1)
          /\ QueryAt(Exported, place).query # <<>>
          /\ QueryAt(new_dashboard[1], place).name = <<"x", "_", "count">>

\* ------------------------------------------------------------------------ C7
\* C7 (as claimed): saving a dashboard with n datasets and m pages to an empty
\* folder leaves n *.sql files and m *.yml files there, each dataset's file
\* holding that dataset's formatted query and each page's file that page.
C7_OneFilePerDatasetAndPage ==
    [][(SaveStep /\ sql_files = <<>> /\ yml_files = <<>> /\ outcome' = "ok") =>
          LET dashboard == new_dashboard'[1]
          IN  /\ Cardinality(DOMAIN sql_files') = Len(dashboard.datasets)
              /\ Cardinality(DOMAIN yml_files') = Len(dashboard.pages)
              /\ \A i \in 1..Len(dashboard.datasets) :
                    /\ SqlFile(dashboard.datasets[i].name) \in DOMAIN sql_files'
                    /\ sql_files'[SqlFile(dashboard.datasets[i].name)]
                          = format_query(dashboard.datasets[i].query).text
              /\ \A i \in 1..Len(dashboard.pages) :
                    /\ YmlFile(dashboard.pages[i].name) \in DOMAIN yml_files'
                    /\ yml_files'[YmlFile(dashboard.pages[i].name)]
                          = yaml_safe_dump(as_dict_Page(dashboard.pages[i]))]_vars

\* ------------------------------------------------------------------------ C8
\* C8 (as claimed): save_to_folder never ends in an exception of the formatter:
\* a query sqlglot cannot parse is written as it was given, and every dataset
\* and page gets its file.
C8_FormattingNeverRaises ==
    [][SaveStep =>
          /\ outcome' = "ok"
          /\ \A i \in 1..Len(new_dashboard'[1].datasets) :
                SqlFile(new_dashboard'[1].datasets[i].name) \in DOMAIN sql_files'
          /\ \A i \in 1..Len(new_dashboard'[1].pages) :
                YmlFile(new_dashboard'[1].pages[i].name) \in DOMAIN yml_files'
          /\ \A i \in 1..Len(new_dashboard'[1].datasets) :
                (/\ Parse(new_dashboard'[1].datasets[i].query).raises # ""
                 /\ \A j \in 1..Len(new_dashboard'[1].datasets) :
                       j > i => new_dashboard'[1].datasets[j].name # new_dashboard'[1].datasets[i].name)
                => sql_files'[SqlFile(new_dashboard'[1].datasets[i].name)]
                      = new_dashboard'[1].datasets[i].query]_vars

\* ----------------------------------------------------------------------- C10
\* C10 (as claimed): after a normalization, every ControlFieldEncoding.query_name
\* that held the old name of a remote-named NamedQuery holds that NamedQuery's
\* new name, wherever the encoding sits in the dashboard.
C10_EncodingsFollowQueries ==
    [][NormalizeStep =>
          \A place \in QueryPlaces(new_dashboard[1]), at \in EncodingPlaces(new_dashboard[1]) :
              (/\ MatchesRemotePattern(QueryAt(new_dashboard[1], place).name)
               /\ QueryAt(new_dashboard[1], place).query # <<>>
               /\ EncodingAt(new_dashboard[1], at).query_name = QueryAt(new_dashboard[1], place).name)
              => EncodingAt(new_dashboard'[1], at).query_name
                    = QueryAt(new_dashboard'[1], place).name]_vars

\* ----------------------------------------------------------------------- C11
\* C11 (as claimed): normalizing a dashboard that has been normalized already
\* changes nothing, whatever names and display names its datasets and pages have.
C11_NormalizeIdempotent ==
    [][(NormalizeStep /\ normalized.new_dashboard) => new_dashboard' = new_dashboard]_vars

====
